---- MODULE Spec2Model ----
(***************************************************************************)
(* Viewport transform engine of the InfiniteCanvas component               *)
(* (src/components/canva.tsx): pan offset, zoom factor and the drag,       *)
(* wheel, pinch, keyboard and zoom-button handlers that update them.       *)
(*                                                                         *)
(* Numbers.  A JavaScript number is modelled as a pair <<n, d>>: the exact *)
(* rational n/d in lowest terms when d > 0, NaN when <<0, 0>>, +Infinity   *)
(* when <<1, 0>> and -Infinity when <<-1, 0>>.  Binary rounding of IEEE    *)
(* doubles is not modelled; division by zero, NaN propagation and the NaN  *)
(* behaviour of Math.min / Math.max / !== are.                             *)
(*                                                                         *)
(* Coordinates.  clientX / clientY are measured from the top-left corner   *)
(* of the canvas container; every handler uses them only through           *)
(* differences with rect.left / rect.top or with each other, so the        *)
(* container's own place on the page drops out.                            *)
(***************************************************************************)
EXTENDS Integers, Sequences, FiniteSets, TLC

VARIABLES position, zoomLevel, isDragging, startPos, lastDistance,
          showDebug, showZoomControls,
          mounted, attached, closure, viewport, touches,
          limit, nEvents, last, before, dragAnchor, pinchAnchor, ideal,
          placed, trip, showTip, tipTimeout, clock, bitcoinPrice

\* position .. showZoomControls are the component's React state.  mounted
\* (the effects have run), attached (canvasRef.current is the element),
\* closure (the state captured by the handlers that are subscribed now, i.e.
\* the state of the latest render whose effects have run), viewport (window
\* size) and touches (active touch contacts) are the environment.  The rest
\* is history kept for stating properties: limit is the number of events the
\* run may deliver, nEvents counts the events delivered, last is the latest
\* event with the state it arrived in, before the kind, key and contacts of the
\* event preceding it, dragAnchor the pointer and offset at the latest mouse
\* press and whether the button is still held, pinchAnchor the distance, zoom and offset when the second contact
\* arrived, ideal the state of the run that is fed the same events and
\* re-renders after each of them.  placed is the left / top the latest
\* render gave each registered addition; trip is a grid cell with the
\* surface point and the cell the conversions made of it.  showTip is the
\* component's tip flag, tipTimeout the seconds left on the pending
\* setTimeout of the drag / pinch effect (NoTimer when none is pending), clock
\* the seconds since construction.  bitcoinPrice is the BitcoinPrice
\* widget: its React state, its requests in flight, its interval and the
\* outcome of the request that completed last.
vars == <<position, zoomLevel, isDragging, startPos, lastDistance,
          showDebug, showZoomControls,
          mounted, attached, closure, viewport, touches,
          limit, nEvents, last, before, dragAnchor, pinchAnchor, ideal,
          placed, trip, showTip, tipTimeout, clock, bitcoinPrice>>

(***************************************************************************)
(* Bounds of the model                                                     *)
(***************************************************************************)
\* number of input events delivered after mount
MaxEvents == 4
\* number of simultaneous touch contacts
MaxTouches == 3
\* number of input events delivered after mount in the runs with delayed
\* renders, lost input capture and unmounting
MaxEnvEvents == 3
\* number of input events delivered after mount in the runs about the
\* keyboard, where the window may be resized
MaxKeyEvents == 3
\* largest grid coordinate, in either direction, the conversions are given
MaxGrid == 5
\* number of input events delivered after mount in the runs where time passes
MaxTipEvents == 2
\* seconds those runs last
MaxClock == 7
\* number of requests the BitcoinPrice widget starts
MaxFetches == 3

(***************************************************************************)
(* JavaScript number arithmetic                                            *)
(***************************************************************************)
Abs(n) == IF n < 0 THEN -n ELSE n

RECURSIVE Gcd(_, _)
Gcd(a, b) == IF b = 0 THEN a ELSE Gcd(b, a % b)

Sign(n) == IF n > 0 THEN 1 ELSE IF n < 0 THEN -1 ELSE 0

\* n/d in lowest terms; d = 0 gives NaN or a signed Infinity
Norm(n, d) ==
  IF d = 0 THEN <<Sign(n), 0>>
  ELSE LET g == Gcd(Abs(n), Abs(d))
           s == Sign(d)
       IN  <<(s * n) \div g, (s * d) \div g>>

I(n) == <<n, 1>>
NaN == <<0, 0>>
IsNaN(a) == a = NaN
IsFinite(a) == a[2] # 0

Neg(a) == <<-a[1], a[2]>>

Add(a, b) ==
  IF IsNaN(a) \/ IsNaN(b) THEN NaN
  ELSE IF IsFinite(a) /\ IsFinite(b)
       THEN LET g == Gcd(a[2], b[2])
            IN  Norm(a[1] * (b[2] \div g) + b[1] * (a[2] \div g), (a[2] \div g) * b[2])
  ELSE IF ~IsFinite(a) /\ ~IsFinite(b) THEN (IF a = b THEN a ELSE NaN)
  ELSE IF IsFinite(a) THEN b ELSE a

Sub(a, b) == Add(a, Neg(b))

\* numerators and denominators are cancelled crosswise before multiplying
Mul(a, b) ==
  LET g1 == Gcd(Abs(a[1]), Abs(b[2]))
      g2 == Gcd(Abs(b[1]), Abs(a[2]))
      h1 == IF g1 = 0 THEN 1 ELSE g1
      h2 == IF g2 = 0 THEN 1 ELSE g2
  IN  Norm((a[1] \div h1) * (b[1] \div h2), (a[2] \div h2) * (b[2] \div h1))

Div(a, b) == Mul(a, <<b[2], b[1]>>)

\* a < b as JavaScript compares numbers: false when either is NaN
Lt(a, b) ==
  /\ ~IsNaN(a)
  /\ ~IsNaN(b)
  /\ a # b
  /\ IF IsFinite(a) /\ IsFinite(b) THEN a[1] * b[2] < b[1] * a[2]
     ELSE IF ~IsFinite(a) THEN a[1] < 0
     ELSE b[1] > 0

Le(a, b) == ~IsNaN(a) /\ ~IsNaN(b) /\ ~Lt(b, a)

\* Math.max / Math.min: NaN when either argument is NaN
MathMax(a, b) == IF IsNaN(a) \/ IsNaN(b) THEN NaN ELSE IF Lt(a, b) THEN b ELSE a
MathMin(a, b) == IF IsNaN(a) \/ IsNaN(b) THEN NaN ELSE IF Lt(b, a) THEN b ELSE a

\* a !== b on numbers: NaN differs from everything, itself included
StrictNeq(a, b) == IsNaN(a) \/ IsNaN(b) \/ a # b

\* Math.hypot on integer differences.  The contact points the model uses
\* are pairwise at integer distances, so the root is exact.
Hypot(dx, dy) ==
  LET sq == dx * dx + dy * dy
  IN  I(CHOOSE r \in 0..(Abs(dx) + Abs(dy)) : r * r = sq)

(***************************************************************************)
(* Configuration                                                           *)
(***************************************************************************)
GridCellSize == 400
GridCenterX == 5000
GridCenterY == 5000

ZoomMin == <<1, 5>>
ZoomMax == <<2, 1>>
ZoomStep == <<1, 10>>
ZoomDefault == <<1, 1>>

\* width and height of the canvas element, in px
CanvasSize == 10000
\* innerWidth below which the zoom buttons are shown
MobileWidth == 768
\* delay of the tip's setTimeout, in seconds
TipDelay == 5
\* period of the widget's setInterval, in seconds
FetchPeriod == 60

\* variant: the cell is not offset by the canvas centre
gridToPixelFromOrigin(gridX, gridY) == <<gridX * GridCellSize, gridY * GridCellSize>>

\* variant: the axes are exchanged
gridToPixelSwapped(gridX, gridY) ==
  <<GridCenterX + gridY * GridCellSize, GridCenterY + gridX * GridCellSize>>

gridToPixel(gridX, gridY) ==
  <<GridCenterX + gridX * GridCellSize, GridCenterY + gridY * GridCellSize>>

\* Math.round: the nearest integer, halves upwards
MathRound(a) == I((2 * a[1] + a[2]) \div (2 * a[2]))

\* the GRID configuration as the floorPlan argument of pixelToGrid
GridPlan ==
  [centerX |-> GridCenterX, centerY |-> GridCenterY, cellSize |-> GridCellSize]

\* the documented inverse (Pixel-to-Grid Conversion)
pixelToGrid(pixelX, pixelY, floorPlan) ==
  <<MathRound(Div(Sub(I(pixelX), I(floorPlan.centerX)), I(floorPlan.cellSize))),
    MathRound(Div(Sub(I(pixelY), I(floorPlan.centerY)), I(floorPlan.cellSize)))>>

\* the registered content: label and grid cell
ADDITIONS ==
  <<[label |-> "QwertyLogo", gridX |-> 0, gridY |-> 0],
    [label |-> "DancingCat", gridX |-> 1, gridY |-> 0],
    [label |-> "BitcoinPrice", gridX |-> 1, gridY |-> -1]>>

\* ADDITIONS.map in the JSX: left / top of each addition, in canvas px
RenderAdditions ==
  [i \in 1..Len(ADDITIONS) |-> gridToPixel(ADDITIONS[i].gridX, ADDITIONS[i].gridY)]

(***************************************************************************)
(* Inputs                                                                  *)
(***************************************************************************)
\* pointer and contact positions; pairwise distances are 0, 10, 20 and 30
Points == {<<0, 0>>, <<6, 8>>, <<18, 24>>}
\* pointer positions of mouse events
MousePoints == {<<0, 0>>, <<18, 24>>}
\* pointer positions of wheel events
WheelPoints == {<<18, 24>>}
\* window.innerWidth, window.innerHeight
Viewports == {<<1024, 768>>, <<375, 667>>}
\* WheelEvent.deltaY
DeltaYs == {-100, 1500}
\* KeyboardEvent.key
Keys == {"d", "c", "r", "+", "-", "x"}
\* ... with both spellings of every command and two keys that have none
AllKeys == {"d", "D", "c", "C", "r", "R", "+", "=", "-", "_", "x", "Escape"}
\* deltaY of long wheel turns: to zoom 1.8, to ZOOM.max and to ZOOM.min
FarDeltaYs == {-800, -1000, 1500}

\* data.market_data.current_price.usd of a response
Prices == {100, 200}
\* data.market_data.price_change_percentage_24h of a response
Changes == {-1, 2}
\* how a request fails: fetch rejects, the response is not OK, or the body
\* is not the JSON the widget reads
Failures == {"network", "notOk", "malformed"}
\* grid coordinates given to the conversions
GridRange == (-MaxGrid)..MaxGrid

Null == <<>>
\* a value v of a state that may also hold null
Some(v) == <<v>>
\* no timeout or interval is pending
NoTimer == -1

(***************************************************************************)
(* Component state                                                         *)
(***************************************************************************)
\* the React state of the component as one record
St ==
  [position |-> position, zoomLevel |-> zoomLevel, isDragging |-> isDragging,
   startPos |-> startPos, lastDistance |-> lastDistance,
   showDebug |-> showDebug]

\* the state the useState calls construct
Constructed ==
  [position |-> <<I(0), I(0)>>, zoomLevel |-> ZoomDefault, isDragging |-> FALSE,
   startPos |-> <<I(0), I(0)>>, lastDistance |-> Null, showDebug |-> FALSE]

\* history: no event delivered yet
NoEvent == [kind |-> "none", pre |-> Constructed, p |-> <<0, 0>>, deltaY |-> 0,
            ctrlKey |-> FALSE, key |-> "", touches |-> <<>>, rect |-> TRUE,
            held |-> FALSE]
NoDrag == [open |-> FALSE, held |-> FALSE, a |-> <<0, 0>>, o |-> <<I(0), I(0)>>]
NoPinch == [open |-> FALSE, d |-> I(0), z |-> ZoomDefault, o |-> <<I(0), I(0)>>]

\* variant: the window centre is not moved back by the canvas centre
CenteredOnOrigin(vp) == <<Div(I(vp[1]), I(2)), Div(I(vp[2]), I(2))>>

\* { x: innerWidth / 2 - GRID.centerX, y: innerHeight / 2 - GRID.centerY }
Centered(vp) ==
  <<Sub(Div(I(vp[1]), I(2)), I(GridCenterX)),
    Sub(Div(I(vp[2]), I(2)), I(GridCenterY))>>

\* no request of the widget has completed
NoOutcome == [kind |-> "none", live |-> FALSE, price |-> 0, change |-> 0,
              pre |-> Null, post |-> Null]

\* the BitcoinPrice widget as its useState calls construct it, before its
\* effect runs
BitcoinConstructed ==
  [price |-> Null, change24h |-> Null, loading |-> TRUE, error |-> Null,
   lastUpdated |-> NoTimer, phase |-> "constructed", pending |-> 0,
   interval |-> NoTimer,
   started |-> 0, elapsed |-> 0, startedAtUnmount |-> 0, done |-> NoOutcome]

\* construction of the component, before its effects run
Construct ==
  /\ position = Constructed.position
  /\ zoomLevel = Constructed.zoomLevel
  /\ isDragging = Constructed.isDragging
  /\ startPos = Constructed.startPos
  /\ lastDistance = Constructed.lastDistance
  /\ showDebug = Constructed.showDebug
  /\ showZoomControls = FALSE
  /\ mounted = FALSE
  /\ attached = TRUE
  /\ closure = Constructed
  /\ viewport \in Viewports
  /\ touches = <<>>
  /\ nEvents = 0
  /\ last = NoEvent
  /\ before = [kind |-> "none", key |-> "", touches |-> <<>>]
  /\ dragAnchor = NoDrag
  /\ pinchAnchor = NoPinch
  /\ ideal = Constructed
  /\ placed = RenderAdditions
  /\ showTip = TRUE
  /\ tipTimeout = NoTimer
  /\ clock = 0
  /\ bitcoinPrice = BitcoinConstructed

\* no conversion asked for
NoTrip == [grid |-> <<0, 0>>, pixel |-> Null, back |-> Null]

Init == Construct /\ limit = MaxEvents /\ trip = NoTrip

InitEnv == Construct /\ limit = MaxEnvEvents /\ trip = NoTrip

InitKeys == Construct /\ limit = MaxKeyEvents /\ trip = NoTrip

InitTip == Construct /\ limit = MaxTipEvents /\ trip = NoTrip

\* the widget alone: no input event is delivered to the canvas
InitBitcoin == Construct /\ limit = 0 /\ trip = NoTrip

\* the conversions are given a cell; no input event is delivered
InitGrid ==
  /\ Construct
  /\ limit = 0
  /\ \E gx \in GridRange, gy \in GridRange :
       trip = [grid |-> <<gx, gy>>, pixel |-> Null, back |-> Null]

(***************************************************************************)
(* Pieces of the handlers                                                  *)
(***************************************************************************)
\* Math.max(ZOOM.min, Math.min(ZOOM.max, z))
Clamp(z) == MathMax(ZoomMin, MathMin(ZoomMax, z))

\* canvas.getBoundingClientRect(): <<left, top>> of the 10000px box under
\* transform: translate(pos) scale(zoom), whose origin is the box's centre
CanvasRect(pos, zoom) ==
  LET shift == Mul(I(CanvasSize \div 2), Sub(I(1), zoom))
  IN  <<Add(pos[1], shift), Add(pos[2], shift)>>

\* client point p relative to the canvas rectangle
RelativeToCanvas(p, pos, zoom) ==
  <<Sub(I(p[1]), CanvasRect(pos, zoom)[1]), Sub(I(p[2]), CanvasRect(pos, zoom)[2])>>

\* variant: the offset is scaled about the origin instead of about m
FocalPositionAboutOrigin(m, pos, scaleFactor) ==
  <<Mul(pos[1], scaleFactor), Mul(pos[2], scaleFactor)>>

\* m - (m - pos) * scaleFactor, per coordinate
FocalPosition(m, pos, scaleFactor) ==
  <<Sub(m[1], Mul(Sub(m[1], pos[1]), scaleFactor)),
    Sub(m[2], Mul(Sub(m[2], pos[2]), scaleFactor))>>

\* variant: the wheel result is not clamped
WheelZoomUnclamped(zoom, deltaY) ==
  Add(zoom, Mul(Mul(I(deltaY), <<-1, 100>>), ZoomStep))

\* variant: the wheel delta is not scaled by ZOOM.step
WheelZoomWholeDelta(zoom, deltaY) ==
  Clamp(Add(zoom, Mul(I(deltaY), <<-1, 100>>)))

\* zoomLevel + (deltaY * -0.01) * ZOOM.step, clamped
WheelZoom(zoom, deltaY) ==
  Clamp(Add(zoom, Mul(Mul(I(deltaY), <<-1, 100>>), ZoomStep)))

\* variant: the anchor forgets the offset at press time
DragAnchorWithoutOffset(p, pos) == <<I(p[1]), I(p[2])>>

\* { x: clientX - position.x, y: clientY - position.y }
DragAnchor(p, pos) == <<Sub(I(p[1]), pos[1]), Sub(I(p[2]), pos[2])>>

\* { x: clientX - startPos.x, y: clientY - startPos.y }
DragPosition(p, start) == <<Sub(I(p[1]), start[1]), Sub(I(p[2]), start[2])>>

\* Math.hypot(touch1.clientX - touch2.clientX, touch1.clientY - touch2.clientY)
TouchDistance(t) == Hypot(t[1][1] - t[2][1], t[1][2] - t[2][2])

\* variant: the first contact stands in for the midpoint
TouchMidpointFirstContact(t) == <<I(t[1][1]), I(t[1][2])>>

\* midpoint between the two contacts
TouchMidpoint(t) ==
  <<Div(I(t[1][1] + t[2][1]), I(2)), Div(I(t[1][2] + t[2][2]), I(2))>>

\* variant: the pinch result is not clamped
PinchZoomUnclamped(zoom, currentDistance, lastD) ==
  Mul(zoom, Div(currentDistance, lastD))

\* zoomLevel * (currentDistance / lastDistance), clamped
PinchZoom(zoom, currentDistance, lastD) ==
  Clamp(Mul(zoom, Div(currentDistance, lastD)))

\* variants: the step is not clamped
StepInUnclamped(prev) == Add(prev, ZoomStep)
StepOutUnclamped(prev) == Sub(prev, ZoomStep)

\* Math.min(prev + ZOOM.step, ZOOM.max) and Math.max(prev - ZOOM.step, ZOOM.min)
StepIn(prev) == MathMin(Add(prev, ZoomStep), ZoomMax)
StepOut(prev) == MathMax(Sub(prev, ZoomStep), ZoomMin)

(***************************************************************************)
(* Handlers.  c is the state the handler's closure captured at the render  *)
(* that subscribed it, s the state the updates are applied to, e the       *)
(* event.  Each yields the state after the handler's setState calls.       *)
(***************************************************************************)
\* variant: C re-centres for a 1024 x 768 window whatever the window is
handleKeyDownFixedWindow(s, e, vp) ==
  LET s1 == IF e.key \in {"d", "D"} THEN [s EXCEPT !.showDebug = ~s.showDebug] ELSE s
      s2 == IF e.key \in {"c", "C"} THEN [s1 EXCEPT !.position = Centered(<<1024, 768>>)] ELSE s1
      s3 == IF e.key \in {"r", "R"} THEN [s2 EXCEPT !.zoomLevel = ZoomDefault] ELSE s2
      s4 == IF e.key \in {"+", "="} THEN [s3 EXCEPT !.zoomLevel = StepIn(s3.zoomLevel)] ELSE s3
      s5 == IF e.key \in {"-", "_"} THEN [s4 EXCEPT !.zoomLevel = StepOut(s4.zoomLevel)] ELSE s4
  IN  s5

\* variant: R re-centres too
handleKeyDownResetAlsoCenters(s, e, vp) ==
  LET s1 == IF e.key \in {"d", "D"} THEN [s EXCEPT !.showDebug = ~s.showDebug] ELSE s
      s2 == IF e.key \in {"c", "C", "r", "R"} THEN [s1 EXCEPT !.position = Centered(vp)] ELSE s1
      s3 == IF e.key \in {"r", "R"} THEN [s2 EXCEPT !.zoomLevel = ZoomDefault] ELSE s2
      s4 == IF e.key \in {"+", "="} THEN [s3 EXCEPT !.zoomLevel = StepIn(s3.zoomLevel)] ELSE s3
      s5 == IF e.key \in {"-", "_"} THEN [s4 EXCEPT !.zoomLevel = StepOut(s4.zoomLevel)] ELSE s4
  IN  s5

\* variant: a key without a command resets the zoom
handleKeyDownAnyKeyResets(s, e, vp) ==
  LET s1 == IF e.key \in {"d", "D"} THEN [s EXCEPT !.showDebug = ~s.showDebug] ELSE s
      s2 == IF e.key \in {"c", "C"} THEN [s1 EXCEPT !.position = Centered(vp)] ELSE s1
      s3 == IF e.key \notin {"d", "D", "c", "C", "+", "=", "-", "_"}
            THEN [s2 EXCEPT !.zoomLevel = ZoomDefault] ELSE s2
      s4 == IF e.key \in {"+", "="} THEN [s3 EXCEPT !.zoomLevel = StepIn(s3.zoomLevel)] ELSE s3
      s5 == IF e.key \in {"-", "_"} THEN [s4 EXCEPT !.zoomLevel = StepOut(s4.zoomLevel)] ELSE s4
  IN  s5

\* variant: D resets the zoom as well as toggling the overlay
handleKeyDownDebugResetsZoom(s, e, vp) ==
  LET s1 == IF e.key \in {"d", "D"}
            THEN [s EXCEPT !.showDebug = ~s.showDebug, !.zoomLevel = ZoomDefault]
            ELSE s
      s2 == IF e.key \in {"c", "C"} THEN [s1 EXCEPT !.position = Centered(vp)] ELSE s1
      s3 == IF e.key \in {"r", "R"} THEN [s2 EXCEPT !.zoomLevel = ZoomDefault] ELSE s2
      s4 == IF e.key \in {"+", "="} THEN [s3 EXCEPT !.zoomLevel = StepIn(s3.zoomLevel)] ELSE s3
      s5 == IF e.key \in {"-", "_"} THEN [s4 EXCEPT !.zoomLevel = StepOut(s4.zoomLevel)] ELSE s4
  IN  s5

handleKeyDown(s, e, vp) ==
  LET s1 == IF e.key \in {"d", "D"} THEN [s EXCEPT !.showDebug = ~s.showDebug] ELSE s
      s2 == IF e.key \in {"c", "C"} THEN [s1 EXCEPT !.position = Centered(vp)] ELSE s1
      s3 == IF e.key \in {"r", "R"} THEN [s2 EXCEPT !.zoomLevel = ZoomDefault] ELSE s2
      s4 == IF e.key \in {"+", "="} THEN [s3 EXCEPT !.zoomLevel = StepIn(s3.zoomLevel)] ELSE s3
      s5 == IF e.key \in {"-", "_"} THEN [s4 EXCEPT !.zoomLevel = StepOut(s4.zoomLevel)] ELSE s4
  IN  s5

\* variant: the wheel zooms without the modifier key too
handleWheelUngated(c, s, e) ==
  LET newZoomLevel == WheelZoom(c.zoomLevel, e.deltaY)
  IN  IF StrictNeq(newZoomLevel, c.zoomLevel) /\ e.rect
      THEN LET mouse == RelativeToCanvas(e.p, c.position, c.zoomLevel)
               scaleFactor == Div(newZoomLevel, c.zoomLevel)
           IN  [s EXCEPT !.zoomLevel = newZoomLevel,
                         !.position = FocalPosition(mouse, c.position, scaleFactor)]
      ELSE s

\* variant: a wheel zoom moves the drag anchor along with the offset it writes
handleWheelReanchors(c, s, e) ==
  IF ~e.ctrlKey THEN s
  ELSE
    LET newZoomLevel == WheelZoom(c.zoomLevel, e.deltaY)
    IN  IF StrictNeq(newZoomLevel, c.zoomLevel)
        THEN IF ~e.rect THEN s
             ELSE
               LET mouse == RelativeToCanvas(e.p, c.position, c.zoomLevel)
                   scaleFactor == Div(newZoomLevel, c.zoomLevel)
                   moved == FocalPosition(mouse, c.position, scaleFactor)
               IN  [s EXCEPT !.zoomLevel = newZoomLevel,
                             !.position = moved,
                             !.startPos =
                               <<Sub(c.startPos[1], Sub(moved[1], c.position[1])),
                                 Sub(c.startPos[2], Sub(moved[2], c.position[2]))>>]
        ELSE s

handleWheel(c, s, e) ==
  IF ~e.ctrlKey THEN s
  ELSE
    LET newZoomLevel == WheelZoom(c.zoomLevel, e.deltaY)
    IN  IF StrictNeq(newZoomLevel, c.zoomLevel)
        THEN IF ~e.rect THEN s
             ELSE
               LET mouse == RelativeToCanvas(e.p, c.position, c.zoomLevel)
                   scaleFactor == Div(newZoomLevel, c.zoomLevel)
               IN  [s EXCEPT !.zoomLevel = newZoomLevel,
                             !.position = FocalPosition(mouse, c.position, scaleFactor)]
        ELSE s

handleMouseDown(c, s, e) ==
  [s EXCEPT !.isDragging = TRUE, !.startPos = DragAnchor(e.p, c.position)]

\* variant: a move pans whether or not a drag is open
handleMouseMoveAlways(c, s, e) ==
  [s EXCEPT !.position = DragPosition(e.p, c.startPos)]

handleMouseMove(c, s, e) ==
  IF ~c.isDragging THEN s
  ELSE [s EXCEPT !.position = DragPosition(e.p, c.startPos)]

\* variant: the release also resets the zoom
handleMouseUpResetZoom(s) ==
  [s EXCEPT !.isDragging = FALSE, !.zoomLevel = ZoomDefault]

handleMouseUp(s) == [s EXCEPT !.isDragging = FALSE]

\* variant: the one-contact press forgets the offset at press time
handleTouchStartNoAnchor(c, s, e) ==
  IF Len(e.touches) = 2
  THEN [s EXCEPT !.lastDistance = TouchDistance(e.touches)]
  ELSE IF Len(e.touches) = 1
  THEN [s EXCEPT !.isDragging = TRUE,
                 !.startPos = <<I(e.touches[1][1]), I(e.touches[1][2])>>]
  ELSE s

handleTouchStart(c, s, e) ==
  IF Len(e.touches) = 2
  THEN [s EXCEPT !.lastDistance = TouchDistance(e.touches)]
  ELSE IF Len(e.touches) = 1
  THEN [s EXCEPT !.isDragging = TRUE,
                 !.startPos = DragAnchor(e.touches[1], c.position)]
  ELSE s

\* variant: the pinch writes the zoom and leaves the offset for later
handleTouchMoveZoomOnly(c, s, e) ==
  IF Len(e.touches) = 2 /\ c.lastDistance # Null
  THEN LET currentDistance == TouchDistance(e.touches)
       IN  [s EXCEPT !.zoomLevel = PinchZoom(c.zoomLevel, currentDistance,
                                             c.lastDistance),
                     !.lastDistance = currentDistance]
  ELSE IF Len(e.touches) = 1 /\ c.isDragging
  THEN [s EXCEPT !.position = DragPosition(e.touches[1], c.startPos)]
  ELSE s

handleTouchMove(c, s, e) ==
  IF Len(e.touches) = 2 /\ c.lastDistance # Null
  THEN LET currentDistance == TouchDistance(e.touches)
           newZoomLevel == PinchZoom(c.zoomLevel, currentDistance, c.lastDistance)
           mid == TouchMidpoint(e.touches)
           rect == CanvasRect(c.position, c.zoomLevel)
           midpoint == <<Sub(mid[1], rect[1]), Sub(mid[2], rect[2])>>
           scaleFactor == Div(newZoomLevel, c.zoomLevel)
       IN  [s EXCEPT !.zoomLevel = newZoomLevel,
                     !.position = FocalPosition(midpoint, c.position, scaleFactor),
                     !.lastDistance = currentDistance]
  ELSE IF Len(e.touches) = 1 /\ c.isDragging
  THEN [s EXCEPT !.position = DragPosition(e.touches[1], c.startPos)]
  ELSE s

\* variant: the pinch distance is reset only when exactly one contact remains
handleTouchEndOneLeft(s, e) ==
  LET s1 == IF Len(e.touches) = 1 THEN [s EXCEPT !.lastDistance = Null] ELSE s
      s2 == IF Len(e.touches) = 0 THEN [s1 EXCEPT !.isDragging = FALSE] ELSE s1
  IN  s2

handleTouchEnd(s, e) ==
  LET s1 == IF Len(e.touches) < 2 THEN [s EXCEPT !.lastDistance = Null] ELSE s
      s2 == IF Len(e.touches) = 0 THEN [s1 EXCEPT !.isDragging = FALSE] ELSE s1
  IN  s2

zoomIn(s) == [s EXCEPT !.zoomLevel = StepIn(s.zoomLevel)]
zoomOut(s) == [s EXCEPT !.zoomLevel = StepOut(s.zoomLevel)]
resetZoom(s) == [s EXCEPT !.zoomLevel = ZoomDefault]

\* the listener an event of each kind reaches; touchcancel, mouseleave and
\* any other kind have none
Handle(c, s, e, vp) ==
  CASE e.kind = "keydown" -> handleKeyDown(s, e, vp)
    [] e.kind = "wheel" -> handleWheel(c, s, e)
    [] e.kind = "mousedown" -> handleMouseDown(c, s, e)
    [] e.kind = "mousemove" -> handleMouseMove(c, s, e)
    [] e.kind = "mouseup" -> handleMouseUp(s)
    [] e.kind = "touchstart" -> handleTouchStart(c, s, e)
    [] e.kind = "touchmove" -> handleTouchMove(c, s, e)
    [] e.kind = "touchend" -> handleTouchEnd(s, e)
    [] e.kind = "zoomIn" -> zoomIn(s)
    [] e.kind = "zoomOut" -> zoomOut(s)
    [] e.kind = "resetZoom" -> resetZoom(s)
    [] OTHER -> s

(***************************************************************************)
(* Actions: one per event.  In Spec events are delivered in the documented *)
(* flow "User Input -> Event Listener -> State Update -> Re-render": the   *)
(* component re-renders and its effects re-subscribe the handlers after    *)
(* every event, so each handler's closure holds the state the previous     *)
(* event left.                                                             *)
(***************************************************************************)
Ev(kind, p, deltaY, ctrlKey, key, tch) ==
  [kind |-> kind, pre |-> St, p |-> p, deltaY |-> deltaY, ctrlKey |-> ctrlKey,
   key |-> key, touches |-> tch, rect |-> attached, held |-> dragAnchor.held]

\* the state n is stored and the event e recorded
Record(n, e) ==
  /\ position' = n.position
  /\ zoomLevel' = n.zoomLevel
  /\ isDragging' = n.isDragging
  /\ startPos' = n.startPos
  /\ lastDistance' = n.lastDistance
  /\ showDebug' = n.showDebug
  /\ last' = e
  /\ before' = [kind |-> last.kind, key |-> last.key, touches |-> last.touches]
  /\ nEvents' = nEvents + 1
  /\ dragAnchor' =
       IF e.kind = "mousedown"
       THEN [open |-> TRUE, held |-> TRUE, a |-> e.p, o |-> position]
       ELSE IF e.kind = "mouseup"
            THEN [dragAnchor EXCEPT !.open = FALSE, !.held = FALSE]
            ELSE IF e.kind \in {"touchstart", "touchend", "touchcancel"}
                 THEN [dragAnchor EXCEPT !.open = FALSE]
                 ELSE dragAnchor
  /\ pinchAnchor' =
       IF e.kind = "touchstart" /\ Len(e.touches) = 2
       THEN [open |-> TRUE, d |-> TouchDistance(e.touches), z |-> zoomLevel,
             o |-> position]
       ELSE IF e.kind = "touchmove" /\ Len(e.touches) = 2
            THEN pinchAnchor
            ELSE [pinchAnchor EXCEPT !.open = FALSE]
  /\ ideal' = IF ideal = St /\ closure = St THEN n
            ELSE Handle(ideal, ideal, e, viewport)
  /\ UNCHANGED <<trip, showTip, clock, bitcoinPrice>>

\* the handler of e calls setPosition or setStartPos, whose argument is a
\* new object every time
WritesObjects(c, e) ==
  CASE e.kind = "keydown" -> e.key \in {"c", "C"}
    [] e.kind = "wheel" ->
         e.ctrlKey /\ e.rect /\ StrictNeq(WheelZoom(c.zoomLevel, e.deltaY), c.zoomLevel)
    [] e.kind = "mousedown" -> TRUE
    [] e.kind = "mousemove" -> c.isDragging
    [] e.kind = "touchstart" -> Len(e.touches) = 1
    [] e.kind = "touchmove" ->
         \/ Len(e.touches) = 2 /\ c.lastDistance # Null
         \/ Len(e.touches) = 1 /\ c.isDragging
    [] OTHER -> FALSE

\* the event e, which took the state from s to n, changed a dependency of
\* the drag / pinch effect ([isDragging, position, startPos, zoomLevel,
\* lastDistance], compared with Object.is): its cleanup clears the pending
\* timeout and the effect sets a new one
Resubscribes(c, s, n, e) ==
  \/ WritesObjects(c, e)
  \/ n.isDragging # s.isDragging
  \/ n.zoomLevel # s.zoomLevel
  \/ n.lastDistance # s.lastDistance

\* the state n is stored, the component re-renders and its effects subscribe
\* handlers that capture n, all before the next event
Commit(n, e) ==
  /\ Record(n, e)
  /\ closure' = n
  /\ placed' = RenderAdditions
  /\ tipTimeout' = IF Resubscribes(closure, St, n, e) THEN TipDelay ELSE tipTimeout

\* the state n is stored and the next event arrives before the re-render: the
\* handlers subscribed stay the ones of the earlier render
Queue(n, e) ==
  /\ Record(n, e)
  /\ closure' = closure
  /\ placed' = placed
  /\ tipTimeout' = tipTimeout

\* the window listeners are subscribed
Listening == mounted /\ nEvents < limit
\* ... and the canvas element is in the document
Ready == Listening /\ attached

\* the mount effect: centre the canvas, read ?debug=true, show zoom buttons
Mount ==
  /\ ~mounted
  /\ mounted' = TRUE
  /\ position' = Centered(viewport)
  /\ \E debugParam \in BOOLEAN :
       /\ showDebug' = debugParam
       /\ closure' = [St EXCEPT !.position = Centered(viewport),
                                !.showDebug = debugParam]
       /\ ideal' = closure'
  /\ showZoomControls' = (viewport[1] < MobileWidth)
  /\ placed' = RenderAdditions
  /\ tipTimeout' = TipDelay
  /\ UNCHANGED <<zoomLevel, isDragging, startPos, lastDistance, attached,
                 viewport, touches, limit, nEvents, last, before, dragAnchor,
                 pinchAnchor, trip, showTip, clock, bitcoinPrice>>

KeyDown ==
  /\ Ready
  /\ \E k \in Keys :
       LET e == Ev("keydown", <<0, 0>>, 0, FALSE, k, touches)
       IN  Commit(handleKeyDown(St, e, viewport), e)
  /\ UNCHANGED <<showZoomControls, mounted, attached, viewport, touches, limit>>

Wheel ==
  /\ Listening
  /\ \E p \in WheelPoints, dy \in DeltaYs, ctrl \in BOOLEAN :
       LET e == Ev("wheel", p, dy, ctrl, "", touches)
       IN  Commit(handleWheel(closure, St, e), e)
  /\ UNCHANGED <<showZoomControls, mounted, attached, viewport, touches, limit>>

MouseDown ==
  /\ Ready
  /\ \E p \in MousePoints :
       LET e == Ev("mousedown", p, 0, FALSE, "", touches)
       IN  Commit(handleMouseDown(closure, St, e), e)
  /\ UNCHANGED <<showZoomControls, mounted, attached, viewport, touches, limit>>

MouseMove ==
  /\ Ready
  /\ \E p \in MousePoints :
       LET e == Ev("mousemove", p, 0, FALSE, "", touches)
       IN  Commit(handleMouseMove(closure, St, e), e)
  /\ UNCHANGED <<showZoomControls, mounted, attached, viewport, touches, limit>>

MouseUp ==
  /\ Ready
  /\ LET e == Ev("mouseup", <<0, 0>>, 0, FALSE, "", touches)
     IN  Commit(handleMouseUp(St), e)
  /\ UNCHANGED <<showZoomControls, mounted, attached, viewport, touches, limit>>

\* a new contact lands on the canvas
TouchStart ==
  /\ Ready
  /\ Len(touches) < MaxTouches
  /\ \E p \in Points :
       LET t == Append(touches, p)
           e == Ev("touchstart", p, 0, FALSE, "", t)
       IN  /\ touches' = t
           /\ Commit(handleTouchStart(closure, St, e), e)
  /\ UNCHANGED <<showZoomControls, mounted, attached, viewport, limit>>

\* a touchmove reporting contact i at p (p may be where it already was)
TouchMove ==
  /\ Ready
  /\ \E i \in 1..Len(touches), p \in Points :
       LET t == [touches EXCEPT ![i] = p]
           e == Ev("touchmove", p, 0, FALSE, "", t)
       IN  /\ touches' = t
           /\ Commit(handleTouchMove(closure, St, e), e)
  /\ UNCHANGED <<showZoomControls, mounted, attached, viewport, limit>>

\* contact i is lifted, or (i = 0) all contacts are lifted at once
TouchEnd ==
  /\ Ready
  /\ Len(touches) > 0
  /\ \E i \in 0..Len(touches) :
       LET t == IF i = 0 THEN <<>>
                ELSE SubSeq(touches, 1, i - 1) \o SubSeq(touches, i + 1, Len(touches))
           e == Ev("touchend", touches[IF i = 0 THEN 1 ELSE i], 0, FALSE, "", t)
       IN  /\ touches' = t
           /\ Commit(handleTouchEnd(St, e), e)
  /\ UNCHANGED <<showZoomControls, mounted, attached, viewport, limit>>

ZoomButton ==
  /\ Ready
  /\ showZoomControls
  /\ \E b \in {"zoomIn", "zoomOut", "resetZoom"} :
       LET e == Ev(b, <<0, 0>>, 0, FALSE, "", touches)
           n == IF b = "zoomIn" THEN zoomIn(St)
                ELSE IF b = "zoomOut" THEN zoomOut(St) ELSE resetZoom(St)
       IN  Commit(n, e)
  /\ UNCHANGED <<showZoomControls, mounted, attached, viewport, touches, limit>>

Next ==
  \/ Mount
  \/ KeyDown
  \/ Wheel
  \/ MouseDown
  \/ MouseMove
  \/ MouseUp
  \/ TouchStart
  \/ TouchMove
  \/ TouchEnd
  \/ ZoomButton

Spec == Init /\ [][Next]_vars

(***************************************************************************)
(* The wider environment.  wheel, mousemove and touchmove are continuous   *)
(* events: React schedules the re-render their updates ask for in a later  *)
(* task, and the effects that re-subscribe the handlers after it, so the   *)
(* next event may reach the handlers of the earlier render.  The browser   *)
(* may end touches with touchcancel, the pointer may leave the window,     *)
(* several contacts may land in one touchstart, and on unmount the ref is  *)
(* cleared before the effect cleanups remove the window listeners.         *)
(***************************************************************************)
WheelQueued ==
  /\ Listening
  /\ \E p \in WheelPoints, dy \in DeltaYs, ctrl \in BOOLEAN :
       LET e == Ev("wheel", p, dy, ctrl, "", touches)
       IN  Queue(handleWheel(closure, St, e), e)
  /\ UNCHANGED <<showZoomControls, mounted, attached, viewport, touches, limit>>

MouseMoveQueued ==
  /\ Ready
  /\ \E p \in MousePoints :
       LET e == Ev("mousemove", p, 0, FALSE, "", touches)
       IN  Queue(handleMouseMove(closure, St, e), e)
  /\ UNCHANGED <<showZoomControls, mounted, attached, viewport, touches, limit>>

TouchMoveQueued ==
  /\ Ready
  /\ \E i \in 1..Len(touches), p \in Points :
       LET t == [touches EXCEPT ![i] = p]
           e == Ev("touchmove", p, 0, FALSE, "", t)
       IN  /\ touches' = t
           /\ Queue(handleTouchMove(closure, St, e), e)
  /\ UNCHANGED <<showZoomControls, mounted, attached, viewport, limit>>

\* the pending re-render and its effects run
Render ==
  /\ mounted
  /\ attached
  /\ closure # St
  /\ closure' = St
  /\ placed' = RenderAdditions
  /\ tipTimeout' =
       IF [closure EXCEPT !.showDebug = showDebug] # St THEN TipDelay
       ELSE tipTimeout
  /\ UNCHANGED <<position, zoomLevel, isDragging, startPos, lastDistance,
                 showDebug, showZoomControls, mounted, attached, viewport,
                 touches, limit, nEvents, last, before, dragAnchor,
                 pinchAnchor, ideal, trip, showTip, clock, bitcoinPrice>>

\* the browser takes the touches over: every contact ends, no listener runs
TouchCancel ==
  /\ Ready
  /\ Len(touches) > 0
  /\ LET e == Ev("touchcancel", touches[1], 0, FALSE, "", <<>>)
     IN  /\ touches' = <<>>
         /\ Queue(Handle(closure, St, e, viewport), e)
  /\ UNCHANGED <<showZoomControls, mounted, attached, viewport, limit>>

\* the pointer leaves the window: no listener runs
MouseLeave ==
  /\ Ready
  /\ LET e == Ev("mouseleave", <<0, 0>>, 0, FALSE, "", touches)
     IN  Queue(Handle(closure, St, e, viewport), e)
  /\ UNCHANGED <<showZoomControls, mounted, attached, viewport, touches, limit>>

\* two or more contacts land in one touchstart
TouchStartTogether ==
  /\ Ready
  /\ touches = <<>>
  /\ \E k \in 2..MaxTouches, p \in Points, q \in Points :
       LET t == [i \in 1..k |-> IF i = 1 THEN p ELSE q]
           e == Ev("touchstart", p, 0, FALSE, "", t)
       IN  /\ touches' = t
           /\ Commit(handleTouchStart(closure, St, e), e)
  /\ UNCHANGED <<showZoomControls, mounted, attached, viewport, limit>>

\* unmount: React clears canvasRef.current; the window listeners stay until
\* the effect cleanups run
Detach ==
  /\ Ready
  /\ attached' = FALSE
  /\ UNCHANGED <<position, zoomLevel, isDragging, startPos, lastDistance,
                 showDebug, showZoomControls, mounted, closure, viewport,
                 touches, limit, nEvents, last, before, dragAnchor,
                 pinchAnchor, ideal, placed, trip, showTip, tipTimeout, clock,
                 bitcoinPrice>>

\* A continuous event followed by Render is the event of Spec.  Keys and
\* zoom buttons are left to Spec: their updates do not read the closure.
NextEnv ==
  \/ Mount
  \/ MouseDown
  \/ MouseUp
  \/ TouchStart
  \/ TouchEnd
  \/ WheelQueued
  \/ MouseMoveQueued
  \/ TouchMoveQueued
  \/ Render
  \/ TouchCancel
  \/ MouseLeave
  \/ TouchStartTogether
  \/ Detach

SpecEnv == InitEnv /\ [][NextEnv]_vars

(***************************************************************************)
(* The keyboard.  The keydown listener is subscribed once, by an effect    *)
(* without dependencies, and reads window.innerWidth / innerHeight when a  *)
(* key arrives; its updates are functional.  The window may be resized     *)
(* between keys: the component has no resize listener.                     *)
(***************************************************************************)
KeyDownAny ==
  /\ Ready
  /\ \E k \in AllKeys :
       LET e == Ev("keydown", <<0, 0>>, 0, FALSE, k, touches)
       IN  Commit(handleKeyDown(St, e, viewport), e)
  /\ UNCHANGED <<showZoomControls, mounted, attached, viewport, touches, limit>>

\* the window takes another size: no listener runs
Resize ==
  /\ Ready
  /\ \E vp \in Viewports \ {viewport} : viewport' = vp
  /\ LET e == Ev("resize", <<0, 0>>, 0, FALSE, "", touches)
     IN  Queue(Handle(closure, St, e, viewport), e)
  /\ UNCHANGED <<showZoomControls, mounted, attached, touches, limit>>

\* a long turn of the wheel with the modifier held
WheelFar ==
  /\ Listening
  /\ \E p \in WheelPoints, dy \in FarDeltaYs :
       LET e == Ev("wheel", p, dy, TRUE, "", touches)
       IN  Commit(handleWheel(closure, St, e), e)
  /\ UNCHANGED <<showZoomControls, mounted, attached, viewport, touches, limit>>

NextKeys ==
  \/ Mount
  \/ KeyDownAny
  \/ Resize
  \/ WheelFar
  \/ MouseDown

SpecKeys == InitKeys /\ [][NextKeys]_vars

(***************************************************************************)
(* The grid conversions, applied to one cell: gridToPixel, then the        *)
(* documented inverse pixelToGrid with the GRID configuration.             *)
(***************************************************************************)
ToPixel ==
  /\ trip.pixel = Null
  /\ trip' = [trip EXCEPT !.pixel = gridToPixel(trip.grid[1], trip.grid[2])]
  /\ UNCHANGED <<position, zoomLevel, isDragging, startPos, lastDistance,
                 showDebug, showZoomControls, mounted, attached, closure,
                 viewport, touches, limit, nEvents, last, before, dragAnchor,
                 pinchAnchor, ideal, placed, showTip, tipTimeout, clock,
                 bitcoinPrice>>

ToGrid ==
  /\ trip.pixel # Null
  /\ trip.back = Null
  /\ trip' = [trip EXCEPT !.back = pixelToGrid(trip.pixel[1], trip.pixel[2], GridPlan)]
  /\ UNCHANGED <<position, zoomLevel, isDragging, startPos, lastDistance,
                 showDebug, showZoomControls, mounted, attached, closure,
                 viewport, touches, limit, nEvents, last, before, dragAnchor,
                 pinchAnchor, ideal, placed, showTip, tipTimeout, clock,
                 bitcoinPrice>>

NextGrid ==
  \/ ToPixel
  \/ ToGrid

SpecGrid == InitGrid /\ [][NextGrid]_vars

(***************************************************************************)
(* The tip.  The drag / pinch effect sets a 5 s timeout that hides the tip *)
(* and its cleanup clears it; the effect runs again whenever one of its    *)
(* dependencies changes.  Time passes in steps of one second, and a        *)
(* timeout that is due fires before more time passes.                      *)
(***************************************************************************)
Tick ==
  /\ mounted
  /\ clock < MaxClock
  /\ tipTimeout # 0
  /\ clock' = clock + 1
  /\ tipTimeout' = IF tipTimeout = NoTimer THEN NoTimer ELSE tipTimeout - 1
  /\ UNCHANGED <<position, zoomLevel, isDragging, startPos, lastDistance,
                 showDebug, showZoomControls, mounted, attached, closure,
                 viewport, touches, limit, nEvents, last, before, dragAnchor,
                 pinchAnchor, ideal, placed, trip, showTip, bitcoinPrice>>

\* the timeout's callback: setShowTip(false)
TipTimeout ==
  /\ tipTimeout = 0
  /\ showTip' = FALSE
  /\ tipTimeout' = NoTimer
  /\ UNCHANGED <<position, zoomLevel, isDragging, startPos, lastDistance,
                 showDebug, showZoomControls, mounted, attached, closure,
                 viewport, touches, limit, nEvents, last, before, dragAnchor,
                 pinchAnchor, ideal, placed, trip, clock, bitcoinPrice>>

NextTip ==
  \/ Mount
  \/ Tick
  \/ TipTimeout
  \/ KeyDown
  \/ Wheel
  \/ MouseDown
  \/ MouseMove
  \/ MouseUp
  \/ TouchStart
  \/ TouchMove
  \/ TouchEnd

SpecTip == InitTip /\ [][NextTip]_vars

(***************************************************************************)
(* The BitcoinPrice widget (src/components/additions/BitcoinPrice.tsx).    *)
(* Its effect calls fetchBitcoinPrice at mount and from a 60 s interval    *)
(* that its cleanup clears.  A request completes at any later time, in any *)
(* order with the others; the setState calls after its awaits are one      *)
(* batch.  After unmount the state is gone and a completion sets nothing.  *)
(***************************************************************************)
\* setLoading(true) and the request leaves
fetchBitcoinPriceStarts(b) ==
  [b EXCEPT !.loading = TRUE, !.pending = b.pending + 1, !.started = b.started + 1]

\* the try block ran to its end, then finally
fetchBitcoinPriceSucceeds(b, usd, pct) ==
  [b EXCEPT !.price = Some(usd), !.change24h = Some(pct),
            !.lastUpdated = b.elapsed,
            !.error = Null, !.loading = FALSE]

\* variant: a failure also forgets the price shown
fetchBitcoinPriceFailsClearsPrice(b) ==
  [b EXCEPT !.error = Some("Failed to load Bitcoin price. Please try again later."),
            !.price = Null, !.loading = FALSE]

\* the catch block, then finally
fetchBitcoinPriceFails(b) ==
  [b EXCEPT !.error = Some("Failed to load Bitcoin price. Please try again later."),
            !.loading = FALSE]

\* what the widget shows
Shown(b) ==
  [price |-> b.price, change24h |-> b.change24h, loading |-> b.loading,
   error |-> b.error]

\* a request completes with state n for a mounted widget
Completes(n, kind, usd, pct) ==
  LET live == bitcoinPrice.phase = "mounted"
      after == IF live THEN n ELSE bitcoinPrice
  IN  bitcoinPrice' =
        [after EXCEPT !.pending = bitcoinPrice.pending - 1,
                      !.done = [kind |-> kind, live |-> live, price |-> usd,
                                change |-> pct, pre |-> Shown(bitcoinPrice),
                                post |-> Shown(after)]]

\* everything but the widget
canvasVars ==
  <<position, zoomLevel, isDragging, startPos, lastDistance, showDebug,
    showZoomControls, mounted, attached, closure, viewport, touches, limit,
    nEvents, last, before, dragAnchor, pinchAnchor, ideal, placed, trip,
    showTip, tipTimeout, clock>>

BitcoinMount ==
  /\ bitcoinPrice.phase = "constructed"
  /\ bitcoinPrice' =
       [fetchBitcoinPriceStarts(bitcoinPrice) EXCEPT !.phase = "mounted",
                                                     !.interval = FetchPeriod]
  /\ UNCHANGED canvasVars

\* half a period passes
BitcoinTick ==
  /\ bitcoinPrice.phase = "mounted"
  /\ bitcoinPrice.interval # 0
  /\ bitcoinPrice.started < MaxFetches
  /\ bitcoinPrice' =
       [bitcoinPrice EXCEPT !.elapsed = bitcoinPrice.elapsed + FetchPeriod \div 2,
                            !.interval = bitcoinPrice.interval - FetchPeriod \div 2]
  /\ UNCHANGED canvasVars

\* the interval calls fetchBitcoinPrice
IntervalFires ==
  /\ bitcoinPrice.phase = "mounted"
  /\ bitcoinPrice.interval = 0
  /\ bitcoinPrice.started < MaxFetches
  /\ bitcoinPrice' =
       [fetchBitcoinPriceStarts(bitcoinPrice) EXCEPT !.interval = FetchPeriod]
  /\ UNCHANGED canvasVars

FetchSucceeds ==
  /\ bitcoinPrice.pending > 0
  /\ \E usd \in Prices, pct \in Changes :
       Completes(fetchBitcoinPriceSucceeds(bitcoinPrice, usd, pct), "ok", usd, pct)
  /\ UNCHANGED canvasVars

FetchFails ==
  /\ bitcoinPrice.pending > 0
  /\ \E f \in Failures :
       Completes(fetchBitcoinPriceFails(bitcoinPrice), f, 0, 0)
  /\ UNCHANGED canvasVars

\* the effect's cleanup: clearInterval
BitcoinUnmount ==
  /\ bitcoinPrice.phase = "mounted"
  /\ bitcoinPrice' =
       [bitcoinPrice EXCEPT !.phase = "unmounted", !.interval = NoTimer,
                            !.startedAtUnmount = bitcoinPrice.started]
  /\ UNCHANGED canvasVars

NextBitcoin ==
  \/ BitcoinMount
  \/ BitcoinTick
  \/ IntervalFires
  \/ FetchSucceeds
  \/ FetchFails
  \/ BitcoinUnmount

SpecBitcoin == InitBitcoin /\ [][NextBitcoin]_vars

(***************************************************************************)
(* Properties                                                              *)
(***************************************************************************)
IsPinchMove == last.kind = "touchmove" /\ Len(last.touches) = 2

\* a two-contact move of an open pinch session in which the distance at the
\* start of the session, the recorded one and the current one are positive
IsMeasurablePinchMove ==
  /\ IsPinchMove
  /\ pinchAnchor.open
  /\ Lt(I(0), pinchAnchor.d)
  /\ last.pre.lastDistance # Null
  /\ Lt(I(0), last.pre.lastDistance)
  /\ Lt(I(0), TouchDistance(last.touches))

\* the midpoint of the event's two contacts, in client coordinates
ClientMid == <<Div(I(last.touches[1][1] + last.touches[2][1]), I(2)),
               Div(I(last.touches[1][2] + last.touches[2][2]), I(2))>>

\* the same midpoint measured from the canvas rectangle of the state the
\* event arrived in
CanvasMid ==
  LET rect == CanvasRect(last.pre.position, last.pre.zoomLevel)
  IN  <<Sub(ClientMid[1], rect[1]), Sub(ClientMid[2], rect[2])>>

\* m - (m - o) * (z1 / z0), per coordinate
About(m, o, z1, z0) ==
  <<Sub(m[1], Mul(Sub(m[1], o[1]), Div(z1, z0))),
    Sub(m[2], Mul(Sub(m[2], o[2]), Div(z1, z0)))>>

\* z limited to [ZOOM.min, ZOOM.max]; NaN stays NaN
Limited(z) ==
  IF IsNaN(z) THEN NaN
  ELSE IF Lt(z, ZoomMin) THEN ZoomMin
  ELSE IF Lt(ZoomMax, z) THEN ZoomMax
  ELSE z

\* C1: in every reachable state zoomLevel is a number with
\* ZOOM.min <= zoomLevel <= ZOOM.max.
C1_ZoomWithinBounds == Le(ZoomMin, zoomLevel) /\ Le(zoomLevel, ZoomMax)

\* C2: a drag session (isDragging) and a pinch session (lastDistance
\* non-null) are never open at the same time.
C2_SessionExclusivity == ~(isDragging /\ lastDistance # Null)

C7_DegeneratePinchHeld ==
  /\ IsFinite(zoomLevel)
  /\ IsFinite(position[1])
  /\ IsFinite(position[2])
  /\ (IsPinchMove /\ last.pre.lastDistance = I(0)) =>
       (zoomLevel = last.pre.zoomLevel /\ position = last.pre.position)

\* C8: after one of two contacts is lifted, the first one-contact move that
\* reports the remaining contact where it already was leaves the offset as
\* the lift left it.
C8_NoJumpAfterPinch ==
  ( /\ last.kind = "touchmove"
    /\ Len(last.touches) = 1
    /\ before.kind = "touchend"
    /\ before.touches = last.touches ) =>
    position = last.pre.position

\* C9: whenever the number of active contacts is not two, lastDistance is
\* null.
C9_PinchOnlyWithTwoContacts == Len(touches) # 2 => lastDistance = Null

\* C10: after a touchend with no touch remaining, isDragging is false,
\* lastDistance is null, and offset and zoom are what they were before it.
C10_AllLiftedDiscards ==
  (last.kind = "touchend" /\ Len(last.touches) = 0) =>
    /\ ~isDragging
    /\ lastDistance = Null
    /\ position = last.pre.position
    /\ zoomLevel = last.pre.zoomLevel

\* C10 happens: both contacts of a pinch that had moved the view are lifted
\* at once while the drag flag of the first contact was still set
C10_Witness ==
  /\ last.kind = "touchend"
  /\ Len(last.touches) = 0
  /\ before.kind = "touchmove"
  /\ last.pre.isDragging
  /\ last.pre.lastDistance # Null
  /\ position # Centered(viewport)
  /\ IsFinite(position[1])

\* the events that signal loss of input capture
LossKinds == {"touchcancel", "mouseleave"}

\* C11: after an event that signals loss of input capture (touchcancel, the
\* pointer leaving the window) isDragging is false and lastDistance is
\* null, and a move event that follows it changes neither offset nor zoom.
C11_CaptureLossEndsSessions ==
  /\ last.kind \in LossKinds => (~isDragging /\ lastDistance = Null)
  /\ (last.kind \in {"mousemove", "touchmove"} /\ before.kind \in LossKinds) =>
       (position = last.pre.position /\ zoomLevel = last.pre.zoomLevel)

\* C12: a wheel event without the modifier key leaves the whole state as it
\* was, for every delta and pointer position.
C12_WheelGating ==
  (last.kind = "wheel" /\ ~last.ctrlKey) => St = last.pre

\* C12 happens: an unmodified wheel event arrives during a drag at a zoom
\* from which the same event with the modifier would have zoomed in
C12_Witness ==
  /\ last.kind = "wheel"
  /\ ~last.ctrlKey
  /\ last.deltaY = -100
  /\ isDragging
  /\ zoomLevel # ZoomDefault
  /\ Lt(zoomLevel, ZoomMax)

\* z + (deltaY * -0.01) * ZOOM.step limited to [ZOOM.min, ZOOM.max]
WheelTarget(z, deltaY) ==
  Limited(Add(z, Mul(Div(I(-deltaY), I(100)), ZoomStep)))

ExampleWheel ==
  [NoEvent EXCEPT !.kind = "wheel", !.p = <<300, 200>>, !.deltaY = -100,
                  !.ctrlKey = TRUE]

IsZoomGesture ==
  \/ (last.kind = "wheel" /\ last.ctrlKey)
  \/ (IsPinchMove /\ last.pre.lastDistance # Null)

\* the focal point of the gesture as the handlers measure it
CanvasFocus ==
  IF last.kind = "wheel"
  THEN RelativeToCanvas(last.p, last.pre.position, last.pre.zoomLevel)
  ELSE CanvasMid

\* the focal point of the gesture in client coordinates
ClientFocus ==
  IF last.kind = "wheel" THEN <<I(last.p[1]), I(last.p[2])>> ELSE ClientMid

C16_PointerInViewportSpace ==
  (IsZoomGesture /\ zoomLevel # last.pre.zoomLevel) =>
    position = About(ClientFocus, last.pre.position, zoomLevel,
                     last.pre.zoomLevel)

\* C17: every event's update is computed from the state the previous event
\* left: the state after an event is its handler applied to the state the
\* event arrived in.
C17_UpdatesFoldOverEvents ==
  last.kind # "none" => St = Handle(last.pre, last.pre, last, viewport)

\* C18: a run ends with the offset and zoom of any other run started from
\* the same initial state and fed the same events in the same order (here
\* the run that re-renders after every event).
C18_Determinism ==
  position = ideal.position /\ zoomLevel = ideal.zoomLevel

\* C19: a mousemove while isDragging is false, a one-contact touchmove while
\* isDragging is false, a two-contact touchmove while lastDistance is null,
\* and a wheel event while the canvas rectangle is unavailable leave the
\* whole state as it was.
C19_MovesWithoutSessionAreNoOps ==
  ( \/ (last.kind = "mousemove" /\ ~last.pre.isDragging)
    \/ (last.kind = "touchmove" /\ Len(last.touches) = 1 /\ ~last.pre.isDragging)
    \/ (last.kind = "touchmove" /\ Len(last.touches) = 2
          /\ last.pre.lastDistance = Null)
    \/ (last.kind = "wheel" /\ ~last.rect) ) =>
    St = last.pre

\* C19 happens: two contacts remain of three that landed together, so no
\* pinch distance is recorded, and one of the two moves away
C19_Witness ==
  /\ last.kind = "touchmove"
  /\ Len(last.touches) = 2
  /\ last.pre.lastDistance = Null
  /\ before.kind = "touchend"
  /\ before.touches # last.touches
  /\ Lt(I(0), TouchDistance(last.touches))

\* C20: the press, move and release events of a mouse drag and of a
\* one-finger touch drag leave zoomLevel unchanged, and a release changes
\* neither offset nor zoom.
C20_DragKeepsZoom ==
  /\ last.kind \in {"mousedown", "mousemove", "mouseup", "touchend"} =>
       zoomLevel = last.pre.zoomLevel
  /\ (last.kind \in {"touchstart", "touchmove"} /\ Len(last.touches) = 1) =>
       zoomLevel = last.pre.zoomLevel
  /\ last.kind \in {"mouseup", "touchend"} => position = last.pre.position

\* C20 happens: a mouse drag that moved the view is released at a zoom set
\* earlier by the wheel
C20_Witness ==
  /\ last.kind = "mouseup"
  /\ before.kind = "mousemove"
  /\ last.pre.isDragging
  /\ position # Centered(viewport)
  /\ zoomLevel # ZoomDefault
  /\ IsFinite(position[1])

\* the one-finger touch event that does what the mouse event e does: the
\* pointer becomes the only contact, and the release lifts it
TouchVersion(e) ==
  [e EXCEPT !.kind = CASE e.kind = "mousedown" -> "touchstart"
                       [] e.kind = "mousemove" -> "touchmove"
                       [] e.kind = "mouseup" -> "touchend"
                       [] OTHER -> e.kind,
            !.touches = IF e.kind = "mouseup" THEN <<>> ELSE <<e.p>>]

\* the mouse event that does what the one-finger touch event e does
MouseVersion(e) ==
  [e EXCEPT !.kind = CASE e.kind = "touchstart" -> "mousedown"
                       [] e.kind = "touchmove" -> "mousemove"
                       [] e.kind = "touchend" -> "mouseup"
                       [] OTHER -> e.kind,
            !.p = IF Len(e.touches) = 1 THEN e.touches[1] ELSE e.p]

\* a press or move with one contact, or the release of the only contact
IsOneFingerEvent ==
  \/ last.kind \in {"touchstart", "touchmove"} /\ Len(last.touches) = 1
  \/ last.kind = "touchend" /\ Len(last.touches) = 0 /\ Len(before.touches) = 1

\* states a and b agree on everything a drag reads or writes
SameDrag(a, b) ==
  /\ a.position = b.position
  /\ a.zoomLevel = b.zoomLevel
  /\ a.isDragging = b.isDragging
  /\ a.startPos = b.startPos

\* C21: a one-finger touch press, move or release and the mouse press, move
\* or release at the same point, delivered in the same state, leave the same
\* offset, zoom, dragging flag and drag anchor; so a touch drag and a mouse
\* drag made of the same events agree after every event.
C21_TouchDragIsMouseDrag ==
  /\ last.kind \in {"mousedown", "mousemove", "mouseup"} =>
       SameDrag(St, Handle(last.pre, last.pre, TouchVersion(last), viewport))
  /\ IsOneFingerEvent =>
       SameDrag(St, Handle(last.pre, last.pre, MouseVersion(last), viewport))

\* C21 happens: a one-finger drag that moved the view is released with no
\* pinch distance recorded
C21_Witness ==
  /\ last.kind = "touchend"
  /\ Len(last.touches) = 0
  /\ before.kind = "touchmove"
  /\ Len(before.touches) = 1
  /\ last.pre.isDragging
  /\ last.pre.lastDistance = Null
  /\ position # Centered(viewport)
  /\ ~isDragging

IsKey(keys) == last.kind = "keydown" /\ last.key \in keys

\* C22: the key C or c sets the offset to (innerWidth / 2 - centerX,
\* innerHeight / 2 - centerY) for the size the window has when the key is
\* pressed, whatever its size was at mount, and leaves the zoom unchanged.
C22_RecenterKey ==
  IsKey({"c", "C"}) =>
    /\ Add(position[1], position[1]) = I(viewport[1] - 2 * GridCenterX)
    /\ Add(position[2], position[2]) = I(viewport[2] - 2 * GridCenterY)
    /\ zoomLevel = last.pre.zoomLevel

\* C22 happens: the window was resized after mount, then C is pressed at a
\* zoom other than the default and moves the view
C22_Witness ==
  /\ IsKey({"C"})
  /\ before.kind = "resize"
  /\ position = Centered(viewport)
  /\ position # last.pre.position
  /\ zoomLevel # ZoomDefault

\* C23: the key R or r sets the zoom to 1.0 and leaves the offset unchanged.
C23_ResetKey ==
  IsKey({"r", "R"}) =>
    /\ zoomLevel = <<1, 1>>
    /\ position = last.pre.position

\* C23 happens: R is pressed at zoom 1.8 with the view off its mount place
C23_Witness ==
  /\ IsKey({"R"})
  /\ last.pre.zoomLevel = <<9, 5>>
  /\ zoomLevel = <<1, 1>>
  /\ position # Centered(viewport)

\* min(z + step, zoomMax) and max(z - step, zoomMin)
OneStepUp(z) ==
  IF Lt(ZoomMax, Add(z, ZoomStep)) THEN ZoomMax ELSE Add(z, ZoomStep)
OneStepDown(z) ==
  IF Lt(Sub(z, ZoomStep), ZoomMin) THEN ZoomMin ELSE Sub(z, ZoomStep)

\* C24: + or = sets the zoom to min(zoom + step, zoomMax), - or _ sets it to
\* max(zoom - step, zoomMin); the offset is unchanged, and at the bound the
\* key leaves the zoom at the bound.
C24_StepKeys ==
  /\ IsKey({"+", "="}) =>
       /\ zoomLevel = OneStepUp(last.pre.zoomLevel)
       /\ position = last.pre.position
       /\ last.pre.zoomLevel = ZoomMax => zoomLevel = ZoomMax
  /\ IsKey({"-", "_"}) =>
       /\ zoomLevel = OneStepDown(last.pre.zoomLevel)
       /\ position = last.pre.position
       /\ last.pre.zoomLevel = ZoomMin => zoomLevel = ZoomMin

\* C24 happens: = is pressed with the zoom at zoomMax, where a wheel turn
\* had put it
C24_Witness ==
  /\ IsKey({"="})
  /\ before.kind = "wheel"
  /\ last.pre.zoomLevel = ZoomMax
  /\ zoomLevel = ZoomMax

\* C25: a key that has no command changes nothing: offset, zoom, debug flag
\* and session state stay as they were.
C25_OtherKeysAreNoOps ==
  (last.kind = "keydown"
     /\ last.key \notin {"d", "D", "c", "C", "r", "R", "+", "=", "-", "_"}) =>
    St = last.pre

\* C25 happens: Escape is pressed with a drag open, the overlay shown and
\* the zoom changed
C25_Witness ==
  /\ IsKey({"Escape"})
  /\ isDragging
  /\ showDebug
  /\ zoomLevel # ZoomDefault

\* the transform command a key stands for
Command(k) ==
  CASE k \in {"c", "C"} -> "center"
    [] k \in {"r", "R"} -> "reset"
    [] k \in {"+", "="} -> "in"
    [] k \in {"-", "_"} -> "out"
    [] OTHER -> "none"

\* the latest key repeats the transform command of the key just before it
IsRepeatedCommand ==
  /\ last.kind = "keydown"
  /\ before.kind = "keydown"
  /\ Command(last.key) # "none"
  /\ Command(last.key) = Command(before.key)

\* C26: a transform command pressed a second time in a row changes neither
\* offset nor zoom.
C26_KeyCommandsIdempotent ==
  IsRepeatedCommand =>
    /\ position = last.pre.position
    /\ zoomLevel = last.pre.zoomLevel

\* C26, as the code has it: re-centre and reset zoom pressed a second time
\* change nothing; a step pressed a second time steps again, and changes
\* nothing exactly when the first press left the zoom at the bound.
C26_IdempotentExceptSteps ==
  IsRepeatedCommand =>
    /\ position = last.pre.position
    /\ Command(last.key) \in {"center", "reset"} =>
         zoomLevel = last.pre.zoomLevel
    /\ Command(last.key) = "in" =>
         /\ zoomLevel = OneStepUp(last.pre.zoomLevel)
         /\ (zoomLevel = last.pre.zoomLevel) <=> (last.pre.zoomLevel = ZoomMax)
    /\ Command(last.key) = "out" =>
         /\ zoomLevel = OneStepDown(last.pre.zoomLevel)
         /\ (zoomLevel = last.pre.zoomLevel) <=> (last.pre.zoomLevel = ZoomMin)

\* C26 happens: - is pressed twice with the zoom at zoomMin after the first
C26_Witness ==
  /\ IsRepeatedCommand
  /\ Command(last.key) = "out"
  /\ last.pre.zoomLevel = ZoomMin
  /\ zoomLevel = ZoomMin

\* s with the debug flag the other way
FlipDebug(s) == [s EXCEPT !.showDebug = ~s.showDebug]

\* a and b agree on everything but the debug flag
SameButDebug(a, b) == [a EXCEPT !.showDebug = FALSE] = [b EXCEPT !.showDebug = FALSE]

\* C27: the debug flag is no input of the transform: every event leaves the
\* same offset, zoom and session state whether it arrives with the flag set
\* or cleared, D changes the flag only, and the mount effect leaves the same
\* transform whether or not it sets the flag.  Two runs that differ only in
\* the flag or in interleaved D presses therefore agree on offset and zoom
\* after every event.
C27_DebugFlagIsInert ==
  /\ last.kind # "none" =>
       SameButDebug(St, Handle(FlipDebug(last.pre), FlipDebug(last.pre), last,
                               viewport))
  /\ IsKey({"d", "D"}) => SameButDebug(St, last.pre)
  /\ (mounted /\ nEvents = 0) =>
       SameButDebug(St, [Constructed EXCEPT !.position = Centered(viewport)])

\* C27 happens: D hides the overlay while a drag is open and the zoom is off
\* its default
C27_Witness ==
  /\ IsKey({"d"})
  /\ last.pre.showDebug
  /\ ~showDebug
  /\ isDragging
  /\ zoomLevel # ZoomDefault

\* C28: when the mount effect has run and no event has arrived, the offset
\* is (innerWidth / 2 - centerX, innerHeight / 2 - centerY), the zoom is 1.0
\* and no drag or pinch is open; a 1024 x 768 window gives (-4488, -4616).
C28_InitialTransform ==
  (mounted /\ nEvents = 0) =>
    /\ Add(position[1], position[1]) = I(viewport[1] - 2 * GridCenterX)
    /\ Add(position[2], position[2]) = I(viewport[2] - 2 * GridCenterY)
    /\ zoomLevel = <<1, 1>>
    /\ ~isDragging
    /\ lastDistance = Null
    /\ viewport = <<1024, 768>> => position = <<I(-4488), I(-4616)>>

\* C28 happens: the component has mounted in a 1024 x 768 window
C28_Witness ==
  /\ mounted
  /\ nEvents = 0
  /\ viewport = <<1024, 768>>
  /\ position = <<I(-4488), I(-4616)>>
  /\ closure = St

\* C29: gridToPixel(gridX, gridY) is (centerX + gridX * cellSize, centerY +
\* gridY * cellSize), so (1, -1) is placed at (5400, 4600); every render
\* places every registered addition at the gridToPixel of its grid cell,
\* whatever pan, zoom, key or touch events came before.
C29_GridMapping ==
  /\ Len(placed) = Len(ADDITIONS)
  /\ \A i \in 1..Len(ADDITIONS) :
       placed[i] = <<GridCenterX + ADDITIONS[i].gridX * GridCellSize,
                     GridCenterY + ADDITIONS[i].gridY * GridCellSize>>
  /\ \A i \in 1..Len(ADDITIONS) :
       (ADDITIONS[i].gridX = 1 /\ ADDITIONS[i].gridY = -1) =>
         placed[i] = <<5400, 4600>>
  /\ ~mounted =>
       \A gx \in GridRange, gy \in GridRange :
         gridToPixel(gx, gy) =
           <<GridCenterX + gx * GridCellSize, GridCenterY + gy * GridCellSize>>

\* C29 happens: the additions are rendered after a pinch that changed zoom
\* and offset, one of them at cell (1, -1)
C29_Witness ==
  /\ last.kind = "touchmove"
  /\ zoomLevel # last.pre.zoomLevel
  /\ position # last.pre.position
  /\ \E i \in 1..Len(ADDITIONS) :
       ADDITIONS[i].gridX = 1 /\ ADDITIONS[i].gridY = -1 /\ placed[i] = <<5400, 4600>>

\* C30: gridToPixel followed by ((x - centerX) / cellSize, (y - centerY) /
\* cellSize) gives back the cell exactly, and so does the documented
\* pixelToGrid; no other cell is mapped to the same point.
C30_RoundTrip ==
  /\ trip.pixel # Null =>
       /\ Div(Sub(I(trip.pixel[1]), I(GridCenterX)), I(GridCellSize)) = I(trip.grid[1])
       /\ Div(Sub(I(trip.pixel[2]), I(GridCenterY)), I(GridCellSize)) = I(trip.grid[2])
       /\ \A gx \in GridRange, gy \in GridRange :
            gridToPixel(gx, gy) = trip.pixel => <<gx, gy>> = trip.grid
  /\ trip.back # Null => trip.back = <<I(trip.grid[1]), I(trip.grid[2])>>

\* C30 happens: a cell with a negative coordinate went there and back
C30_Witness ==
  /\ trip.grid = <<1, -1>>
  /\ trip.pixel = <<5400, 4600>>
  /\ trip.back = <<I(1), I(-1)>>

\* C32: a mousemove that arrives while no mouse button is held (the last
\* button event was a mouseup, or there was no mousedown) leaves the offset
\* unchanged, also during a touch drag or pinch; and a mouseup that arrives
\* while no mouse button is held does not end a one-finger touch drag.
C32_MouseAndTouchApart ==
  /\ (last.kind = "mousemove" /\ ~last.held) => position = last.pre.position
  /\ (last.kind = "mouseup" /\ ~last.held /\ Len(last.touches) = 1
        /\ last.pre.isDragging) => isDragging

\* the event before the latest was a ctrl+wheel or a re-centre key
IsAfterInterleavedCommand ==
  \/ before.kind = "wheel"
  \/ before.kind = "keydown" /\ before.key \in {"c", "C"}

\* C33: a move of an open mouse drag that follows a ctrl+wheel zoom or a
\* re-centre key sets the offset to the offset at press time plus the
\* pointer's travel since the press, whatever offset the wheel or key wrote,
\* and keeps the zoom the interleaved event left.
C33_DragAnchorSurvivesCommands ==
  (last.kind = "mousemove" /\ dragAnchor.open /\ IsAfterInterleavedCommand) =>
    /\ position[1] = Add(dragAnchor.o[1], I(last.p[1] - dragAnchor.a[1]))
    /\ position[2] = Add(dragAnchor.o[2], I(last.p[2] - dragAnchor.a[2]))
    /\ zoomLevel = last.pre.zoomLevel

\* C33 happens: press, ctrl+wheel that changes zoom and offset, move: the
\* move discards the offset the wheel wrote and keeps its zoom
C33_Witness ==
  /\ last.kind = "mousemove"
  /\ dragAnchor.open
  /\ before.kind = "wheel"
  /\ last.pre.position # dragAnchor.o
  /\ position # last.pre.position
  /\ zoomLevel # ZoomDefault
  /\ zoomLevel = last.pre.zoomLevel

\* the key press that stands for the zoom button event e
KeyVersion(e) ==
  [e EXCEPT !.kind = "keydown",
            !.key = CASE e.kind = "zoomIn" -> "+"
                      [] e.kind = "zoomOut" -> "-"
                      [] e.kind = "resetZoom" -> "R"
                      [] OTHER -> ""]

IsZoomButton == last.kind \in {"zoomIn", "zoomOut", "resetZoom"}

\* the latest event, a zoom button, did what its key would have done and
\* changed the zoom only; zoomIn from 1.0 gave 1.1
ZoomButtonActsAsKey ==
  /\ LET k == handleKeyDown(last.pre, KeyVersion(last), viewport)
     IN  position = k.position /\ zoomLevel = k.zoomLevel
  /\ [St EXCEPT !.zoomLevel = last.pre.zoomLevel] = last.pre
  /\ (last.kind = "zoomIn" /\ last.pre.zoomLevel = <<1, 1>>) =>
       zoomLevel = <<11, 10>>

\* C34: a zoom button leaves the offset and zoom its key would (zoomIn as +,
\* zoomOut as -, resetZoom as R), changes the zoom only, leaves the zoom
\* within [zoomMin, zoomMax], and zoomIn from 1.0 gives 1.1.
C34_ZoomButtonsMatchKeys ==
  IsZoomButton =>
    /\ ZoomButtonActsAsKey
    /\ Le(ZoomMin, zoomLevel)
    /\ Le(zoomLevel, ZoomMax)

\* C31: more than 5 seconds after construction the tip is hidden, whatever
\* drag, wheel, pinch or key events arrived in the meantime.
C31_TipHiddenAfterFiveSeconds == clock > TipDelay => ~showTip

\* the latest completion reached a mounted widget
IsLiveOutcome == bitcoinPrice.done.kind # "none" /\ bitcoinPrice.done.live

\* C35: when a request of the mounted widget completes, loading is false;
\* after a success error is null and price is the fetched value; after a
\* failure error is set and price and change24h are what they were.  A
\* request is started at mount and at every 60 s after it while mounted,
\* and none after unmount.
C35_FetchOutcome ==
  LET b == bitcoinPrice
      d == bitcoinPrice.done
  IN  /\ IsLiveOutcome => d.post.loading = FALSE
      /\ (IsLiveOutcome /\ d.kind = "ok") =>
           /\ d.post.error = Null
           /\ d.post.price = Some(d.price)
      /\ (IsLiveOutcome /\ d.kind \in Failures) =>
           /\ d.post.error # Null
           /\ d.post.price = d.pre.price
           /\ d.post.change24h = d.pre.change24h
      /\ b.phase = "constructed" => b.started = 0
      /\ b.phase = "mounted" =>
           b.started = 1 + (b.elapsed \div FetchPeriod)
                         - (IF b.interval = 0 THEN 1 ELSE 0)
      /\ b.phase = "unmounted" => b.started = b.startedAtUnmount

\* C35 happens: the request of the first interval fails after the request
\* at mount had succeeded; the price shown is still the first one
C35_Witness ==
  /\ IsLiveOutcome
  /\ bitcoinPrice.done.kind = "notOk"
  /\ bitcoinPrice.done.pre.price = Some(100)
  /\ bitcoinPrice.price = Some(100)
  /\ bitcoinPrice.error # Null
  /\ ~bitcoinPrice.loading
  /\ bitcoinPrice.started = 2
  /\ bitcoinPrice.pending = 0

====
